---- MODULE Spec2Model ----
(***************************************************************************)
(* dir_spec: resolution of the standard user directories on Linux, macOS   *)
(* and Windows with XDG overrides.  The repository holds three revisions   *)
(* of the same API:                                                        *)
(*   lib.rs                          struct Dir, Option-returning          *)
(*   xdg.rs + linux.rs/macos.rs/windows.rs   per-platform module functions *)
(*   dir.rs                          struct Dir, Result-returning          *)
(* A program links one of them; each gets its own specification below      *)
(* (SpecLib, SpecMod, SpecDir) over the same state.                        *)
(*                                                                         *)
(* A path is the sequence of its tokens: a separator ("/" or "\\"), a      *)
(* drive prefix ("C:") or a name.  PathBuf::from keeps the text as it is,  *)
(* so the value of a variable and the path made from it are one sequence.  *)
(* Option<PathBuf> and Result<PathBuf> are sequences of length at most 1:  *)
(* None / Err(_) is << >>, Some(p) / Ok(p) is <<p>>.                       *)
(* Environment values are Unicode text, for which env::var(k).ok() and     *)
(* env::var_os(k) read the same value.                                     *)
(***************************************************************************)
EXTENDS Naturals, Sequences, FiniteSets

VARIABLES platform, start, env, account, stdKeepsEmpty, res, thr, pwbuf

vars == <<platform, start, env, account, stdKeepsEmpty, res, thr, pwbuf>>

---------------------------------------------------------------------------
(* Bounds of the model *)

\* at most this many environment variables differ from the environment the
\* process was started with
MaxTouched == 1

\* threads of the process that call the library at the same time
MaxThreads == 2

---------------------------------------------------------------------------
(* Option / Result *)

None == << >>

Some(p) == <<p>>

IsSome(o) == o # None

Unwrap(o) == o[1]

\* Option::or_else
OrElse(o, alt) == IF IsSome(o) THEN o ELSE alt

---------------------------------------------------------------------------
(* The environment of the process and of the host *)

Platforms == {"linux", "macos", "windows"}

IsUnix == platform \in {"linux", "macos"}

IsWindows == platform = "windows"

XdgVars == {"XDG_BIN_HOME", "XDG_CACHE_HOME", "XDG_CONFIG_HOME", "XDG_DATA_HOME",
            "XDG_DESKTOP_DIR", "XDG_DOCUMENTS_DIR", "XDG_DOWNLOAD_DIR",
            "XDG_MUSIC_DIR", "XDG_PICTURES_DIR", "XDG_PUBLICSHARE_DIR",
            "XDG_RUNTIME_DIR", "XDG_STATE_HOME", "XDG_TEMPLATES_DIR",
            "XDG_VIDEOS_DIR"}

NativeVars == {"HOME", "USERPROFILE", "HOMEDRIVE", "HOMEPATH", "APPDATA",
               "LOCALAPPDATA", "TEMP", "TMPDIR"}

EnvVars == XdgVars \cup NativeVars

\* values a variable can be set to on the target platform: an absolute
\* path (named after the variable), a relative path and the empty string
RootOf == IF IsWindows THEN <<"C:", "\\">> ELSE <<"/">>

AbsPath(var) == RootOf \o <<var>>

RelPath == <<"rel">>

EmptyPath == << >>

ValuesOf(var) ==
  CASE var = "HOMEDRIVE" -> {<<"C:">>, EmptyPath}
    [] var = "HOMEPATH"  -> {<<"\\", "Users", "\\", "u">>, EmptyPath}
    [] OTHER             -> {AbsPath(var), RelPath, EmptyPath}

\* the environment the process is started with: empty, or that of a login
\* session of the platform
Starts == {"empty", "login"}

LoginVars ==
  IF IsWindows
  THEN {"USERPROFILE", "HOMEDRIVE", "HOMEPATH", "APPDATA", "LOCALAPPDATA", "TEMP"}
  ELSE {"HOME", "TMPDIR"}

LoginValue(var) ==
  CASE var = "HOMEDRIVE" -> <<"C:">>
    [] var = "HOMEPATH"  -> <<"\\", "Users", "\\", "u">>
    [] OTHER             -> AbsPath(var)

StartEnv ==
  [v \in EnvVars |->
     IF start = "login" /\ v \in LoginVars THEN Some(LoginValue(v)) ELSE None]

\* the current user as the host knows it: the user id, the home directory
\* of its entry in the user database (Unix) and the profile directory the
\* system reports (Windows); None where the host has no such entry
Accounts ==
  { [uid |-> 1000, pw_dir |-> Some(<<"/", "home", "/", "u">>),
     profile |-> Some(<<"C:", "\\", "Users", "\\", "u">>)],
    [uid |-> 27, pw_dir |-> None, profile |-> None] }

Touched(e) == Cardinality({v \in EnvVars : e[v] # StartEnv[v]})

\* std::env::var(key).ok()
env_var(e, key) == e[key]

\* std::env::var_os(key)
env_var_os(e, key) == e[key]

---------------------------------------------------------------------------
(* std::path: separators, prefixes, is_absolute, push/join *)

is_sep(c) == IF IsWindows THEN c \in {"/", "\\"} ELSE c = "/"

MAIN_SEP == IF IsWindows THEN "\\" ELSE "/"

Drives == {"C:"}

\* length of the drive prefix of p (Windows only)
prefix_len(p) == IF IsWindows /\ Len(p) >= 1 /\ p[1] \in Drives THEN 1 ELSE 0

has_root(p) == Len(p) > prefix_len(p) /\ is_sep(p[prefix_len(p) + 1])

is_absolute(p) == IF IsWindows THEN prefix_len(p) > 0 /\ has_root(p) ELSE has_root(p)

\* PathBuf::join(base, path) = base.clone().push(path)
join(base, path) ==
  LET need_sep == /\ Len(base) > 0
                  /\ ~is_sep(base[Len(base)])
                  /\ ~(prefix_len(base) > 0 /\ prefix_len(base) = Len(base))
  IN  IF is_absolute(path) \/ prefix_len(path) > 0 THEN path
      ELSE IF has_root(path) THEN SubSeq(base, 1, prefix_len(base)) \o path
      ELSE IF need_sep THEN base \o <<MAIN_SEP>> \o path
      ELSE base \o path

\* Option::map(|p| p.join(sub))
map_join(o, sub) == IF IsSome(o) THEN Some(join(Unwrap(o), sub)) ELSE None

\* Option::filter(|p| p.is_absolute())
filter_absolute(o) == IF IsSome(o) /\ is_absolute(Unwrap(o)) THEN o ELSE None

\* std::env::home_dir(): HOME (Unix) or USERPROFILE (Windows) when set,
\* else the host's record of the user.  Toolchains differ, and
\* stdKeepsEmpty is TRUE where an earlier one built the program.  The
\* current one takes a variable set to the empty string as unset; earlier
\* ones return it, and on Windows (before Rust 1.85) read HOME first and
\* USERPROFILE after it.
home_dir(e) ==
  IF IsWindows
  THEN IF stdKeepsEmpty
       THEN OrElse(env_var_os(e, "HOME"),
                   OrElse(env_var_os(e, "USERPROFILE"), account.profile))
       ELSE LET v == env_var_os(e, "USERPROFILE")
            IN  IF IsSome(v) /\ Unwrap(v) # EmptyPath THEN v ELSE account.profile
  ELSE LET v == env_var_os(e, "HOME")
       IN  IF IsSome(v) /\ (stdKeepsEmpty \/ Unwrap(v) # EmptyPath) THEN v
           ELSE account.pw_dir

---------------------------------------------------------------------------
(* lib.rs: struct Dir, the Option-returning revision *)

\* mutants of resolve_xdg_path: the filter dropped, the filter inverted
lib_resolve_xdg_path_unfiltered(e, var) == env_var(e, var)

lib_resolve_xdg_path_inverted(e, var) ==
  LET o == env_var(e, var)
  IN  IF IsSome(o) /\ ~is_absolute(Unwrap(o)) THEN o ELSE None

\* env::var(var).ok().map(PathBuf::from).filter(|path| path.is_absolute())
lib_resolve_xdg_path(e, var) == filter_absolute(env_var(e, var))

lib_home(e) == home_dir(e)

\* mutant of get_platform_default: the sub-path alone where home does not
\* resolve
lib_get_platform_default_partial(e, macos_path, windows_env, linux_path) ==
  CASE platform = "macos"   -> OrElse(map_join(lib_home(e), macos_path), Some(macos_path))
    [] platform = "windows" -> env_var(e, windows_env)
    [] platform = "linux"   -> OrElse(map_join(lib_home(e), linux_path), Some(linux_path))

lib_get_platform_default(e, macos_path, windows_env, linux_path) ==
  CASE platform = "macos"   -> map_join(lib_home(e), macos_path)
    [] platform = "windows" -> env_var(e, windows_env)
    [] platform = "linux"   -> map_join(lib_home(e), linux_path)

\* mutant of get_platform_default_with_windows_subdir: Windows going
\* through home() instead of the variable
lib_get_platform_default_with_windows_subdir_home(e, macos_path, windows_env, windows_subdir, linux_path) ==
  CASE platform = "macos"   -> map_join(lib_home(e), macos_path)
    [] platform = "windows" -> map_join(lib_home(e), windows_subdir)
    [] platform = "linux"   -> map_join(lib_home(e), linux_path)

lib_get_platform_default_with_windows_subdir(e, macos_path, windows_env, windows_subdir, linux_path) ==
  CASE platform = "macos"   -> map_join(lib_home(e), macos_path)
    [] platform = "windows" -> map_join(env_var(e, windows_env), windows_subdir)
    [] platform = "linux"   -> map_join(lib_home(e), linux_path)

lib_bin_home(e) ==
  LET path == lib_resolve_xdg_path(e, "XDG_BIN_HOME")
  IN  IF IsSome(path) THEN path
      ELSE IF IsUnix THEN map_join(lib_home(e), <<".local", "/", "bin">>)
      ELSE map_join(env_var(e, "LOCALAPPDATA"), <<"Programs">>)

\* mutant of cache_home: XDG_CONFIG_HOME consulted after XDG_CACHE_HOME
lib_cache_home_shared(e) ==
  OrElse(lib_resolve_xdg_path(e, "XDG_CACHE_HOME"),
         OrElse(lib_resolve_xdg_path(e, "XDG_CONFIG_HOME"),
                lib_get_platform_default(e, <<"Library", "/", "Caches">>, "LOCALAPPDATA", <<".cache">>)))

lib_cache_home(e) ==
  OrElse(lib_resolve_xdg_path(e, "XDG_CACHE_HOME"),
         lib_get_platform_default(e, <<"Library", "/", "Caches">>, "LOCALAPPDATA", <<".cache">>))

lib_config_home(e) ==
  OrElse(lib_resolve_xdg_path(e, "XDG_CONFIG_HOME"),
         lib_get_platform_default(e, <<"Library", "/", "Application Support">>, "APPDATA", <<".config">>))

\* mutant of config_local: the platform default without the override
lib_config_local_default(e) ==
  IF IsWindows THEN env_var(e, "LOCALAPPDATA")
  ELSE lib_get_platform_default(e, <<"Library", "/", "Application Support">>, "APPDATA", <<".config">>)

lib_config_local(e) ==
  IF IsWindows THEN env_var(e, "LOCALAPPDATA") ELSE lib_config_home(e)

lib_data_home(e) ==
  OrElse(lib_resolve_xdg_path(e, "XDG_DATA_HOME"),
         lib_get_platform_default(e, <<"Library", "/", "Application Support">>, "APPDATA", <<".local", "/", "share">>))

\* mutant of data_local: LOCALAPPDATA kept only when absolute
lib_data_local_filtered(e) ==
  IF IsWindows THEN filter_absolute(env_var(e, "LOCALAPPDATA")) ELSE lib_data_home(e)

lib_data_local(e) ==
  IF IsWindows THEN env_var(e, "LOCALAPPDATA") ELSE lib_data_home(e)

lib_desktop(e) ==
  OrElse(lib_resolve_xdg_path(e, "XDG_DESKTOP_DIR"),
         lib_get_platform_default_with_windows_subdir(e, <<"Desktop">>, "USERPROFILE", <<"Desktop">>, <<"Desktop">>))

lib_documents(e) ==
  OrElse(lib_resolve_xdg_path(e, "XDG_DOCUMENTS_DIR"),
         lib_get_platform_default_with_windows_subdir(e, <<"Documents">>, "USERPROFILE", <<"Documents">>, <<"Documents">>))

lib_downloads(e) ==
  OrElse(lib_resolve_xdg_path(e, "XDG_DOWNLOAD_DIR"),
         lib_get_platform_default_with_windows_subdir(e, <<"Downloads">>, "USERPROFILE", <<"Downloads">>, <<"Downloads">>))

\* mutant of fonts: the fonts folder under data_home
lib_fonts_data_home(e) ==
  CASE platform = "macos"   -> map_join(lib_home(e), <<"Library", "/", "Fonts">>)
    [] platform = "linux"   -> map_join(lib_data_home(e), <<"fonts">>)
    [] platform = "windows" -> None

lib_fonts(e) ==
  CASE platform = "macos"   -> map_join(lib_home(e), <<"Library", "/", "Fonts">>)
    [] platform = "linux"   -> map_join(lib_home(e), <<".local", "/", "share", "/", "fonts">>)
    [] platform = "windows" -> None

lib_music(e) ==
  OrElse(lib_resolve_xdg_path(e, "XDG_MUSIC_DIR"),
         lib_get_platform_default_with_windows_subdir(e, <<"Music">>, "USERPROFILE", <<"Music">>, <<"Music">>))

lib_pictures(e) ==
  OrElse(lib_resolve_xdg_path(e, "XDG_PICTURES_DIR"),
         lib_get_platform_default_with_windows_subdir(e, <<"Pictures">>, "USERPROFILE", <<"Pictures">>, <<"Pictures">>))

\* mutants of preferences: the default of config_home without the
\* override; config_home on macOS too
lib_preferences_default(e) ==
  IF platform = "macos" THEN map_join(lib_home(e), <<"Library", "/", "Preferences">>)
  ELSE lib_get_platform_default(e, <<"Library", "/", "Application Support">>, "APPDATA", <<".config">>)

lib_preferences_config_home(e) == lib_config_home(e)

lib_preferences(e) ==
  IF platform = "macos" THEN map_join(lib_home(e), <<"Library", "/", "Preferences">>) ELSE lib_config_home(e)

\* mutant of publicshare: Public under the profile directory on Windows
lib_publicshare_profile(e) ==
  LET path == lib_resolve_xdg_path(e, "XDG_PUBLICSHARE_DIR")
  IN  IF IsSome(path) THEN path
      ELSE CASE platform = "macos"   -> map_join(lib_home(e), <<"Public">>)
             [] platform = "windows" -> map_join(env_var(e, "USERPROFILE"), <<"Public">>)
             [] platform = "linux"   -> map_join(lib_home(e), <<"Public">>)

lib_publicshare(e) ==
  LET path == lib_resolve_xdg_path(e, "XDG_PUBLICSHARE_DIR")
  IN  IF IsSome(path) THEN path
      ELSE CASE platform = "macos"   -> map_join(lib_home(e), <<"Public">>)
             [] platform = "windows" -> Some(<<"C:", "\\", "Users", "\\", "Public">>)
             [] platform = "linux"   -> map_join(lib_home(e), <<"Public">>)

\* mutant of runtime: TMPDIR as it was when the process started
lib_runtime_startup(e) ==
  LET path == lib_resolve_xdg_path(e, "XDG_RUNTIME_DIR")
  IN  IF IsSome(path) THEN path
      ELSE IF IsUnix THEN OrElse(StartEnv["TMPDIR"], Some(<<"/", "tmp">>))
      ELSE env_var(e, "TEMP")

lib_runtime(e) ==
  LET path == lib_resolve_xdg_path(e, "XDG_RUNTIME_DIR")
  IN  IF IsSome(path) THEN path
      ELSE IF IsUnix THEN OrElse(env_var(e, "TMPDIR"), Some(<<"/", "tmp">>))
      ELSE env_var(e, "TEMP")

lib_state_home(e) ==
  OrElse(lib_resolve_xdg_path(e, "XDG_STATE_HOME"),
         lib_get_platform_default(e, <<"Library", "/", "Application Support">>, "LOCALAPPDATA", <<".local", "/", "state">>))

lib_templates(e) ==
  OrElse(lib_resolve_xdg_path(e, "XDG_TEMPLATES_DIR"),
         lib_get_platform_default_with_windows_subdir(e, <<"Templates">>, "USERPROFILE", <<"Templates">>, <<"Templates">>))

lib_videos(e) ==
  OrElse(lib_resolve_xdg_path(e, "XDG_VIDEOS_DIR"),
         lib_get_platform_default_with_windows_subdir(e, <<"Movies">>, "USERPROFILE", <<"Videos">>, <<"Videos">>))

---------------------------------------------------------------------------
(* xdg.rs: the override variables of the per-platform modules *)

\* env::var_os(key).map(PathBuf::from).filter(|p| p.is_absolute())
xdg_resolve_path(e, key) == filter_absolute(env_var_os(e, key))

\* mutant of resolve_path_with_fallback: home without the sub-path
xdg_resolve_path_with_fallback_nojoin(e, key, default) ==
  OrElse(xdg_resolve_path(e, key), home_dir(e))

xdg_resolve_path_with_fallback(e, key, default) ==
  OrElse(xdg_resolve_path(e, key), map_join(home_dir(e), default))

---------------------------------------------------------------------------
(* linux.rs *)

linux_bin_home(e) == xdg_resolve_path_with_fallback(e, "XDG_BIN_HOME", <<".local", "/", "bin">>)

linux_cache_home(e) == xdg_resolve_path_with_fallback(e, "XDG_CACHE_HOME", <<".cache">>)

linux_config_home(e) == xdg_resolve_path_with_fallback(e, "XDG_CONFIG_HOME", <<".config">>)

linux_config_local(e) == linux_config_home(e)

linux_data_home(e) == xdg_resolve_path_with_fallback(e, "XDG_DATA_HOME", <<".local", "/", "share">>)

linux_data_local(e) == linux_data_home(e)

linux_desktop(e) == xdg_resolve_path_with_fallback(e, "XDG_DESKTOP_DIR", <<"Desktop">>)

linux_documents(e) == xdg_resolve_path_with_fallback(e, "XDG_DOCUMENTS_DIR", <<"Documents">>)

linux_downloads(e) == xdg_resolve_path_with_fallback(e, "XDG_DOWNLOAD_DIR", <<"Downloads">>)

linux_fonts(e) == map_join(home_dir(e), <<".local", "/", "share", "/", "fonts">>)

linux_music(e) == xdg_resolve_path_with_fallback(e, "XDG_MUSIC_DIR", <<"Music">>)

linux_pictures(e) == xdg_resolve_path_with_fallback(e, "XDG_PICTURES_DIR", <<"Pictures">>)

linux_preferences(e) == linux_config_home(e)

linux_publicshare(e) == xdg_resolve_path_with_fallback(e, "XDG_PUBLICSHARE_DIR", <<"Public">>)

\* mutant of runtime: TMPDIR not consulted
linux_runtime_notmp(e) ==
  OrElse(xdg_resolve_path(e, "XDG_RUNTIME_DIR"), Some(<<"/", "tmp">>))

linux_runtime(e) ==
  OrElse(xdg_resolve_path(e, "XDG_RUNTIME_DIR"),
         OrElse(env_var(e, "TMPDIR"), Some(<<"/", "tmp">>)))

linux_state_home(e) == xdg_resolve_path_with_fallback(e, "XDG_STATE_HOME", <<".local", "/", "state">>)

linux_templates(e) == xdg_resolve_path_with_fallback(e, "XDG_TEMPLATES_DIR", <<"Templates">>)

linux_videos(e) == xdg_resolve_path_with_fallback(e, "XDG_VIDEOS_DIR", <<"Videos">>)

---------------------------------------------------------------------------
(* macos.rs *)

macos_bin_home(e) == xdg_resolve_path_with_fallback(e, "XDG_BIN_HOME", <<".local", "/", "bin">>)

macos_cache_home(e) == xdg_resolve_path_with_fallback(e, "XDG_CACHE_HOME", <<"Library", "/", "Caches">>)

macos_config_home(e) == xdg_resolve_path_with_fallback(e, "XDG_CONFIG_HOME", <<"Library", "/", "Application Support">>)

macos_config_local(e) == macos_config_home(e)

macos_data_home(e) == xdg_resolve_path_with_fallback(e, "XDG_DATA_HOME", <<"Library", "/", "Application Support">>)

macos_data_local(e) == macos_data_home(e)

macos_desktop(e) == xdg_resolve_path_with_fallback(e, "XDG_DESKTOP_DIR", <<"Desktop">>)

macos_documents(e) == xdg_resolve_path_with_fallback(e, "XDG_DOCUMENTS_DIR", <<"Documents">>)

macos_downloads(e) == xdg_resolve_path_with_fallback(e, "XDG_DOWNLOAD_DIR", <<"Downloads">>)

macos_fonts(e) == map_join(home_dir(e), <<"Library", "/", "Fonts">>)

macos_music(e) == xdg_resolve_path_with_fallback(e, "XDG_MUSIC_DIR", <<"Music">>)

macos_pictures(e) == xdg_resolve_path_with_fallback(e, "XDG_PICTURES_DIR", <<"Pictures">>)

macos_preferences(e) == map_join(home_dir(e), <<"Library", "/", "Preferences">>)

macos_publicshare(e) == xdg_resolve_path_with_fallback(e, "XDG_PUBLICSHARE_DIR", <<"Public">>)

macos_runtime(e) ==
  OrElse(xdg_resolve_path(e, "XDG_RUNTIME_DIR"),
         OrElse(env_var(e, "TMPDIR"), Some(<<"/", "tmp">>)))

macos_state_home(e) == xdg_resolve_path_with_fallback(e, "XDG_STATE_HOME", <<"Library", "/", "Application Support">>)

macos_templates(e) == xdg_resolve_path_with_fallback(e, "XDG_TEMPLATES_DIR", <<"Templates">>)

\* mutant of videos: the Linux folder name
macos_videos_linux(e) == xdg_resolve_path_with_fallback(e, "XDG_VIDEOS_DIR", <<"Videos">>)

macos_videos(e) == xdg_resolve_path_with_fallback(e, "XDG_VIDEOS_DIR", <<"Movies">>)

---------------------------------------------------------------------------
(* windows.rs *)

windows_resolve_path(e, key) == env_var_os(e, key)

windows_resolve_xdg_path_with_fallback(e, xdg_key, key) ==
  OrElse(xdg_resolve_path(e, xdg_key), env_var_os(e, key))

windows_resolve_xdg_path_with_fallback_and_sub_dir(e, xdg_key, key, sub_dir) ==
  map_join(windows_resolve_xdg_path_with_fallback(e, xdg_key, key), sub_dir)

windows_bin_home(e) == map_join(windows_resolve_path(e, "LOCALAPPDATA"), <<"Programs">>)

windows_cache_home(e) == windows_resolve_xdg_path_with_fallback(e, "XDG_CACHE_HOME", "LOCALAPPDATA")

windows_config_home(e) == windows_resolve_xdg_path_with_fallback(e, "XDG_CONFIG_HOME", "APPDATA")

windows_config_local(e) == windows_resolve_path(e, "LOCALAPPDATA")

windows_data_home(e) == windows_resolve_xdg_path_with_fallback(e, "XDG_DATA_HOME", "APPDATA")

windows_data_local(e) == env_var_os(e, "LOCALAPPDATA")

windows_desktop(e) == 
  windows_resolve_xdg_path_with_fallback_and_sub_dir(e, "XDG_DESKTOP_DIR", "USERPROFILE", <<"Desktop">>)

windows_documents(e) == 
  windows_resolve_xdg_path_with_fallback_and_sub_dir(e, "XDG_DOCUMENTS_DIR", "USERPROFILE", <<"Documents">>)

windows_downloads(e) == 
  windows_resolve_xdg_path_with_fallback_and_sub_dir(e, "XDG_DOWNLOAD_DIR", "USERPROFILE", <<"Downloads">>)

windows_fonts(e) == None

windows_music(e) == 
  windows_resolve_xdg_path_with_fallback_and_sub_dir(e, "XDG_MUSIC_DIR", "USERPROFILE", <<"Music">>)

windows_pictures(e) == 
  windows_resolve_xdg_path_with_fallback_and_sub_dir(e, "XDG_PICTURES_DIR", "USERPROFILE", <<"Pictures">>)

windows_preferences(e) == windows_config_home(e)

windows_publicshare(e) == Some(<<"C:", "\\", "Users", "\\", "Public">>)

windows_runtime(e) == env_var_os(e, "TEMP")

windows_state_home(e) == windows_resolve_xdg_path_with_fallback(e, "XDG_STATE_HOME", "LOCALAPPDATA")

windows_templates(e) == 
  windows_resolve_xdg_path_with_fallback_and_sub_dir(e, "XDG_TEMPLATES_DIR", "USERPROFILE", <<"Templates">>)

windows_videos(e) == 
  windows_resolve_xdg_path_with_fallback_and_sub_dir(e, "XDG_VIDEOS_DIR", "USERPROFILE", <<"Videos">>)

---------------------------------------------------------------------------
(* dir.rs: struct Dir, the Result-returning revision (Ok(p) is <<p>>, Err(_) is << >>) *)

\* the decimal digits of n, as format!("{}", n) writes them
RECURSIVE fmt_uint(_)
fmt_uint(n) ==
  LET d == <<"0", "1", "2", "3", "4", "5", "6", "7", "8", "9">>[(n % 10) + 1]
  IN  IF n < 10 THEN <<d>> ELSE fmt_uint(n \div 10) \o <<d>>


\* libc::getuid()
getuid == account.uid

\* libc::getpwuid(uid): the pw_dir of the entry, None for a null pointer
getpwuid(uid) == IF uid = account.uid THEN account.pw_dir ELSE None


dir_home(e) ==
  IF IsUnix
  THEN LET home == env_var(e, "HOME")
       IN  IF IsSome(home) THEN home ELSE getpwuid(getuid)
  ELSE LET profile == env_var(e, "USERPROFILE")
           drive == env_var(e, "HOMEDRIVE")
           path == env_var(e, "HOMEPATH")
       IN  IF IsSome(profile) THEN profile
           ELSE IF IsSome(drive) /\ IsSome(path) THEN Some(Unwrap(drive) \o Unwrap(path))
           ELSE None

dir_bin_home(e) ==
  LET xdg == env_var(e, "XDG_BIN_HOME")
  IN  IF IsSome(xdg) THEN xdg
      ELSE CASE platform = "macos"   -> map_join(dir_home(e), <<".local", "/", "bin">>)
             [] platform = "windows" -> map_join(env_var(e, "LOCALAPPDATA"), <<"Programs">>)
             [] platform = "linux"   -> map_join(dir_home(e), <<".local", "/", "bin">>)

dir_cache_home(e) ==
  LET xdg == env_var(e, "XDG_CACHE_HOME")
  IN  IF IsSome(xdg) THEN xdg
      ELSE CASE platform = "macos"   -> map_join(dir_home(e), <<"Library", "/", "Caches">>)
             [] platform = "windows" -> env_var(e, "LOCALAPPDATA")
             [] platform = "linux"   -> map_join(dir_home(e), <<".cache">>)

dir_config_home(e) ==
  LET xdg == env_var(e, "XDG_CONFIG_HOME")
  IN  IF IsSome(xdg) THEN xdg
      ELSE CASE platform = "macos"   -> map_join(dir_home(e), <<"Library", "/", "Application Support">>)
             [] platform = "windows" -> env_var(e, "APPDATA")
             [] platform = "linux"   -> map_join(dir_home(e), <<".config">>)

dir_data_home(e) ==
  LET xdg == env_var(e, "XDG_DATA_HOME")
  IN  IF IsSome(xdg) THEN xdg
      ELSE CASE platform = "macos"   -> map_join(dir_home(e), <<"Library", "/", "Application Support">>)
             [] platform = "windows" -> env_var(e, "APPDATA")
             [] platform = "linux"   -> map_join(dir_home(e), <<".local", "/", "share">>)

dir_desktop_dir(e) ==
  LET xdg == env_var(e, "XDG_DESKTOP_DIR")
  IN  IF IsSome(xdg) THEN xdg
      ELSE CASE platform = "macos"   -> map_join(dir_home(e), <<"Desktop">>)
             [] platform = "windows" -> map_join(env_var(e, "USERPROFILE"), <<"Desktop">>)
             [] platform = "linux"   -> map_join(dir_home(e), <<"Desktop">>)

dir_documents_dir(e) ==
  LET xdg == env_var(e, "XDG_DOCUMENTS_DIR")
  IN  IF IsSome(xdg) THEN xdg
      ELSE CASE platform = "macos"   -> map_join(dir_home(e), <<"Documents">>)
             [] platform = "windows" -> map_join(env_var(e, "USERPROFILE"), <<"Documents">>)
             [] platform = "linux"   -> map_join(dir_home(e), <<"Documents">>)

dir_download_dir(e) ==
  LET xdg == env_var(e, "XDG_DOWNLOAD_DIR")
  IN  IF IsSome(xdg) THEN xdg
      ELSE CASE platform = "macos"   -> map_join(dir_home(e), <<"Downloads">>)
             [] platform = "windows" -> map_join(env_var(e, "USERPROFILE"), <<"Downloads">>)
             [] platform = "linux"   -> map_join(dir_home(e), <<"Downloads">>)

dir_music_dir(e) ==
  LET xdg == env_var(e, "XDG_MUSIC_DIR")
  IN  IF IsSome(xdg) THEN xdg
      ELSE CASE platform = "macos"   -> map_join(dir_home(e), <<"Music">>)
             [] platform = "windows" -> map_join(env_var(e, "USERPROFILE"), <<"Music">>)
             [] platform = "linux"   -> map_join(dir_home(e), <<"Music">>)

dir_pictures_dir(e) ==
  LET xdg == env_var(e, "XDG_PICTURES_DIR")
  IN  IF IsSome(xdg) THEN xdg
      ELSE CASE platform = "macos"   -> map_join(dir_home(e), <<"Pictures">>)
             [] platform = "windows" -> map_join(env_var(e, "USERPROFILE"), <<"Pictures">>)
             [] platform = "linux"   -> map_join(dir_home(e), <<"Pictures">>)

dir_publicshare_dir(e) ==
  LET xdg == env_var(e, "XDG_PUBLICSHARE_DIR")
  IN  IF IsSome(xdg) THEN xdg
      ELSE CASE platform = "macos"   -> map_join(dir_home(e), <<"Public">>)
             [] platform = "windows" -> Some(<<"C:", "\\", "Users", "\\", "Public">>)
             [] platform = "linux"   -> map_join(dir_home(e), <<"Public">>)

\* mutants of runtime_dir: no /tmp where TMPDIR is unset on macOS; the
\* TMPDIR-or-/tmp rule on Linux too
dir_runtime_dir_strict(e) ==
  LET xdg == env_var(e, "XDG_RUNTIME_DIR")
  IN  IF IsSome(xdg) THEN xdg
      ELSE CASE platform = "macos"   -> env_var(e, "TMPDIR")
             [] platform = "windows" -> env_var(e, "TEMP")
             [] platform = "linux"   -> Some(<<"/", "run", "/", "user", "/">> \o fmt_uint(getuid))

dir_runtime_dir_tmp(e) ==
  LET xdg == env_var(e, "XDG_RUNTIME_DIR")
  IN  IF IsSome(xdg) THEN xdg
      ELSE CASE platform = "macos"   -> OrElse(env_var(e, "TMPDIR"), Some(<<"/", "tmp">>))
             [] platform = "windows" -> env_var(e, "TEMP")
             [] platform = "linux"   -> OrElse(env_var(e, "TMPDIR"), Some(<<"/", "tmp">>))

dir_runtime_dir(e) ==
  LET xdg == env_var(e, "XDG_RUNTIME_DIR")
  IN  IF IsSome(xdg) THEN xdg
      ELSE CASE platform = "macos"   -> OrElse(env_var(e, "TMPDIR"), Some(<<"/", "tmp">>))
             [] platform = "windows" -> env_var(e, "TEMP")
             [] platform = "linux"   -> Some(<<"/", "run", "/", "user", "/">> \o fmt_uint(getuid))

dir_state_home(e) ==
  LET xdg == env_var(e, "XDG_STATE_HOME")
  IN  IF IsSome(xdg) THEN xdg
      ELSE CASE platform = "macos"   -> map_join(dir_home(e), <<"Library", "/", "Application Support">>)
             [] platform = "windows" -> env_var(e, "LOCALAPPDATA")
             [] platform = "linux"   -> map_join(dir_home(e), <<".local", "/", "state">>)

dir_templates_dir(e) ==
  LET xdg == env_var(e, "XDG_TEMPLATES_DIR")
  IN  IF IsSome(xdg) THEN xdg
      ELSE CASE platform = "macos"   -> map_join(dir_home(e), <<"Templates">>)
             [] platform = "windows" -> map_join(env_var(e, "USERPROFILE"), <<"Templates">>)
             [] platform = "linux"   -> map_join(dir_home(e), <<"Templates">>)

dir_videos_dir(e) ==
  LET xdg == env_var(e, "XDG_VIDEOS_DIR")
  IN  IF IsSome(xdg) THEN xdg
      ELSE CASE platform = "macos"   -> map_join(dir_home(e), <<"Movies">>)
             [] platform = "windows" -> map_join(env_var(e, "USERPROFILE"), <<"Videos">>)
             [] platform = "linux"   -> map_join(dir_home(e), <<"Videos">>)
---------------------------------------------------------------------------
(* The operations of each revision, by name *)

LibKinds == {"home", "bin_home", "cache_home", "config_home", "config_local",
             "data_home", "data_local", "desktop", "documents", "downloads",
             "fonts", "music", "pictures", "preferences", "publicshare",
             "runtime", "state_home", "templates", "videos"}

ModKinds == LibKinds \ {"home"}

DirKinds == {"home", "bin_home", "cache_home", "config_home", "data_home",
             "desktop_dir", "documents_dir", "download_dir", "music_dir",
             "pictures_dir", "publicshare_dir", "runtime_dir", "state_home",
             "templates_dir", "videos_dir"}

\* Dir::<k>() of lib.rs
lib_op(k, e) ==
  CASE k = "home" -> lib_home(e)
    [] k = "bin_home" -> lib_bin_home(e)
    [] k = "cache_home" -> lib_cache_home(e)
    [] k = "config_home" -> lib_config_home(e)
    [] k = "config_local" -> lib_config_local(e)
    [] k = "data_home" -> lib_data_home(e)
    [] k = "data_local" -> lib_data_local(e)
    [] k = "desktop" -> lib_desktop(e)
    [] k = "documents" -> lib_documents(e)
    [] k = "downloads" -> lib_downloads(e)
    [] k = "fonts" -> lib_fonts(e)
    [] k = "music" -> lib_music(e)
    [] k = "pictures" -> lib_pictures(e)
    [] k = "preferences" -> lib_preferences(e)
    [] k = "publicshare" -> lib_publicshare(e)
    [] k = "runtime" -> lib_runtime(e)
    [] k = "state_home" -> lib_state_home(e)
    [] k = "templates" -> lib_templates(e)
    [] k = "videos" -> lib_videos(e)

linux_op(k, e) ==
  CASE k = "bin_home" -> linux_bin_home(e)
    [] k = "cache_home" -> linux_cache_home(e)
    [] k = "config_home" -> linux_config_home(e)
    [] k = "config_local" -> linux_config_local(e)
    [] k = "data_home" -> linux_data_home(e)
    [] k = "data_local" -> linux_data_local(e)
    [] k = "desktop" -> linux_desktop(e)
    [] k = "documents" -> linux_documents(e)
    [] k = "downloads" -> linux_downloads(e)
    [] k = "fonts" -> linux_fonts(e)
    [] k = "music" -> linux_music(e)
    [] k = "pictures" -> linux_pictures(e)
    [] k = "preferences" -> linux_preferences(e)
    [] k = "publicshare" -> linux_publicshare(e)
    [] k = "runtime" -> linux_runtime(e)
    [] k = "state_home" -> linux_state_home(e)
    [] k = "templates" -> linux_templates(e)
    [] k = "videos" -> linux_videos(e)

macos_op(k, e) ==
  CASE k = "bin_home" -> macos_bin_home(e)
    [] k = "cache_home" -> macos_cache_home(e)
    [] k = "config_home" -> macos_config_home(e)
    [] k = "config_local" -> macos_config_local(e)
    [] k = "data_home" -> macos_data_home(e)
    [] k = "data_local" -> macos_data_local(e)
    [] k = "desktop" -> macos_desktop(e)
    [] k = "documents" -> macos_documents(e)
    [] k = "downloads" -> macos_downloads(e)
    [] k = "fonts" -> macos_fonts(e)
    [] k = "music" -> macos_music(e)
    [] k = "pictures" -> macos_pictures(e)
    [] k = "preferences" -> macos_preferences(e)
    [] k = "publicshare" -> macos_publicshare(e)
    [] k = "runtime" -> macos_runtime(e)
    [] k = "state_home" -> macos_state_home(e)
    [] k = "templates" -> macos_templates(e)
    [] k = "videos" -> macos_videos(e)

windows_op(k, e) ==
  CASE k = "bin_home" -> windows_bin_home(e)
    [] k = "cache_home" -> windows_cache_home(e)
    [] k = "config_home" -> windows_config_home(e)
    [] k = "config_local" -> windows_config_local(e)
    [] k = "data_home" -> windows_data_home(e)
    [] k = "data_local" -> windows_data_local(e)
    [] k = "desktop" -> windows_desktop(e)
    [] k = "documents" -> windows_documents(e)
    [] k = "downloads" -> windows_downloads(e)
    [] k = "fonts" -> windows_fonts(e)
    [] k = "music" -> windows_music(e)
    [] k = "pictures" -> windows_pictures(e)
    [] k = "preferences" -> windows_preferences(e)
    [] k = "publicshare" -> windows_publicshare(e)
    [] k = "runtime" -> windows_runtime(e)
    [] k = "state_home" -> windows_state_home(e)
    [] k = "templates" -> windows_templates(e)
    [] k = "videos" -> windows_videos(e)

\* the module compiled for the target platform
mod_op(k, e) ==
  CASE platform = "linux"   -> linux_op(k, e)
    [] platform = "macos"   -> macos_op(k, e)
    [] platform = "windows" -> windows_op(k, e)

\* Dir::<k>() of dir.rs
dir_op(k, e) ==
  CASE k = "home" -> dir_home(e)
    [] k = "bin_home" -> dir_bin_home(e)
    [] k = "cache_home" -> dir_cache_home(e)
    [] k = "config_home" -> dir_config_home(e)
    [] k = "data_home" -> dir_data_home(e)
    [] k = "desktop_dir" -> dir_desktop_dir(e)
    [] k = "documents_dir" -> dir_documents_dir(e)
    [] k = "download_dir" -> dir_download_dir(e)
    [] k = "music_dir" -> dir_music_dir(e)
    [] k = "pictures_dir" -> dir_pictures_dir(e)
    [] k = "publicshare_dir" -> dir_publicshare_dir(e)
    [] k = "runtime_dir" -> dir_runtime_dir(e)
    [] k = "state_home" -> dir_state_home(e)
    [] k = "templates_dir" -> dir_templates_dir(e)
    [] k = "videos_dir" -> dir_videos_dir(e)

---------------------------------------------------------------------------
(* The state machine: a caller that changes the environment between calls *)

Threads == 1..MaxThreads

\* a thread that is not inside a call
ThreadIdle == [pc |-> "idle", kind |-> "none", val |-> None]

\* res while no call has returned a value the caller still holds
Idle == [api |-> "none", kind |-> "none", val |-> None]

TypeOK ==
  /\ platform \in Platforms
  /\ account \in Accounts
  /\ stdKeepsEmpty \in BOOLEAN
  /\ \A v \in EnvVars : env[v] = None \/ (IsSome(env[v]) /\ Unwrap(env[v]) \in ValuesOf(v))
  /\ start \in Starts
  /\ Touched(env) <= MaxTouched
  /\ res.api \in {"none", "lib", "mod", "dir"}
  /\ \A t \in Threads : thr[t].pc \in {"idle", "getpwuid", "in_getpwuid", "has_ptr", "done"}
  /\ pwbuf \in {"unset", "scratch", "entry"}

Init ==
  /\ platform \in Platforms
  /\ account \in Accounts
  /\ stdKeepsEmpty \in BOOLEAN
  /\ start \in Starts
  /\ env = StartEnv
  /\ res = Idle
  /\ thr = [t \in Threads |-> ThreadIdle]
  /\ pwbuf = "unset"

\* std::env::set_var(var, x) by the caller (temp_env::with_var in the tests)
SetEnv(var, x) ==
  /\ res = Idle
  /\ env[var] # Some(x)
  /\ Touched([env EXCEPT ![var] = Some(x)]) <= MaxTouched
  /\ env' = [env EXCEPT ![var] = Some(x)]
  /\ UNCHANGED <<platform, start, account, stdKeepsEmpty, res, thr, pwbuf>>

\* std::env::remove_var(var) by the caller (temp_env::with_var_unset)
UnsetEnv(var) ==
  /\ res = Idle
  /\ IsSome(env[var])
  /\ Touched([env EXCEPT ![var] = None]) <= MaxTouched
  /\ env' = [env EXCEPT ![var] = None]
  /\ UNCHANGED <<platform, start, account, stdKeepsEmpty, res, thr, pwbuf>>

\* a call of Dir::<k>() of lib.rs
LibCall(k) ==
  /\ res = Idle
  /\ res' = [api |-> "lib", kind |-> k, val |-> lib_op(k, env)]
  /\ UNCHANGED <<platform, start, env, account, stdKeepsEmpty, thr, pwbuf>>

\* a call of <k>() of the platform module
ModCall(k) ==
  /\ res = Idle
  /\ res' = [api |-> "mod", kind |-> k, val |-> mod_op(k, env)]
  /\ UNCHANGED <<platform, start, env, account, stdKeepsEmpty, thr, pwbuf>>

\* the override variable assigned to a kind (spec, section 6)
XdgVarOf(k) ==
  CASE k = "bin_home" -> "XDG_BIN_HOME"
    [] k = "cache_home" -> "XDG_CACHE_HOME"
    [] k = "config_home" -> "XDG_CONFIG_HOME"
    [] k = "data_home" -> "XDG_DATA_HOME"
    [] k = "state_home" -> "XDG_STATE_HOME"
    [] k \in {"desktop", "desktop_dir"} -> "XDG_DESKTOP_DIR"
    [] k \in {"documents", "documents_dir"} -> "XDG_DOCUMENTS_DIR"
    [] k \in {"downloads", "download_dir"} -> "XDG_DOWNLOAD_DIR"
    [] k \in {"music", "music_dir"} -> "XDG_MUSIC_DIR"
    [] k \in {"pictures", "pictures_dir"} -> "XDG_PICTURES_DIR"
    [] k \in {"publicshare", "publicshare_dir"} -> "XDG_PUBLICSHARE_DIR"
    [] k \in {"runtime", "runtime_dir"} -> "XDG_RUNTIME_DIR"
    [] k \in {"templates", "templates_dir"} -> "XDG_TEMPLATES_DIR"
    [] k \in {"videos", "videos_dir"} -> "XDG_VIDEOS_DIR"

\* the call gets as far as libc::getpwuid: a Unix call of home(), or of a
\* kind whose default is under home() with its XDG variable unset, while
\* HOME is unset
ReachesGetpwuid(k) ==
  /\ IsUnix
  /\ env_var(env, "HOME") = None
  /\ k = "home" \/ (k # "runtime_dir" /\ env_var(env, XdgVarOf(k)) = None)

\* libc's buffer once getpwuid has returned: the entry of the user, or
\* what was scanned last where the user has none
pwbuf_after_getpwuid == IF IsSome(getpwuid(getuid)) THEN "entry" ELSE "scratch"

\* a call of Dir::<k>() of dir.rs; where it goes through libc::getpwuid,
\* libc's buffer is rewritten
DirCall(k) ==
  /\ res = Idle
  /\ res' = [api |-> "dir", kind |-> k, val |-> dir_op(k, env)]
  /\ pwbuf' = IF ReachesGetpwuid(k) THEN pwbuf_after_getpwuid ELSE pwbuf
  /\ UNCHANGED <<platform, start, env, account, stdKeepsEmpty, thr>>

\* the caller is done with the value it got
Return ==
  /\ res # Idle
  /\ res' = Idle
  /\ UNCHANGED <<platform, start, env, account, stdKeepsEmpty, thr, pwbuf>>

EnvStep ==
  \/ \E var \in EnvVars : \E x \in ValuesOf(var) : SetEnv(var, x)
  \/ \E var \in EnvVars : UnsetEnv(var)
  \/ Return

NextLib == EnvStep \/ \E k \in LibKinds : LibCall(k)

NextMod == EnvStep \/ \E k \in ModKinds : ModCall(k)

NextDir == EnvStep \/ \E k \in DirKinds : DirCall(k)

Next ==
  \/ EnvStep
  \/ \E k \in LibKinds : LibCall(k)
  \/ \E k \in ModKinds : ModCall(k)
  \/ \E k \in DirKinds : DirCall(k)

SpecLib == Init /\ [][NextLib]_vars

SpecMod == Init /\ [][NextMod]_vars

SpecDir == Init /\ [][NextDir]_vars

Spec == Init /\ [][Next]_vars

---------------------------------------------------------------------------
(* Vocabulary of the properties *)

\* the 14 kinds that have an override variable, by their lib.rs / module names
XdgKinds == {"bin_home", "cache_home", "config_home", "data_home", "state_home",
             "desktop", "documents", "downloads", "music", "pictures",
             "publicshare", "runtime", "templates", "videos"}

\* the same 14 kinds by their dir.rs names
DirXdgKinds == DirKinds \ {"home"}

UserFolderKinds == {"desktop", "documents", "downloads", "music", "pictures",
                    "templates", "videos"}

Returned == res # Idle

\* the call that returned is of a kind with an override variable
XdgCall == Returned /\ res.kind \in (XdgKinds \cup DirXdgKinds)

\* the value of the override variable of the call that returned
XdgValue == env[XdgVarOf(res.kind)]

XdgIsAbsolute == XdgCall /\ IsSome(XdgValue) /\ is_absolute(Unwrap(XdgValue))

XdgIsNotAbsolute == XdgCall /\ IsSome(XdgValue) /\ ~is_absolute(Unwrap(XdgValue))

\* the environment with the override variable of the call removed
EnvWithoutXdg == [env EXCEPT ![XdgVarOf(res.kind)] = None]

\* what the call would return in the environment e
SameCall(e) ==
  CASE res.api = "lib" -> lib_op(res.kind, e)
    [] res.api = "mod" -> mod_op(res.kind, e)
    [] res.api = "dir" -> dir_op(res.kind, e)

StartsWith(p, q) == Len(p) >= Len(q) /\ SubSeq(p, 1, Len(q)) = q

---------------------------------------------------------------------------
(* Properties *)

\* C1: in lib.rs, on every platform, a call of one of the 14 kinds whose
\* XDG variable holds an absolute path P returns exactly Some(P), whatever
\* the other variables hold.
C1_AbsoluteOverrideVerbatim ==
  (res.api = "lib" /\ XdgIsAbsolute) => res.val = XdgValue

\* C1 witness: an absolute override was returned although the platform
\* default was available too (and differs from it).
C1_Witness ==
  /\ res.api = "lib" /\ XdgIsAbsolute
  /\ res.val = XdgValue
  /\ IsSome(SameCall(EnvWithoutXdg))
  /\ SameCall(EnvWithoutXdg) # res.val

\* C2: in lib.rs and in the platform modules, a call whose XDG variable
\* holds a relative path returns what it returns with that variable unset
\* (the call of lib.rs that returned, and the module function of the same
\* kind in the same environment).
C2_RelativeOverrideIgnored ==
  (res.api = "lib" /\ XdgIsNotAbsolute) =>
     /\ res.val = lib_op(res.kind, EnvWithoutXdg)
     /\ mod_op(res.kind, env) = mod_op(res.kind, EnvWithoutXdg)

\* C2 witness: a non-empty relative override was passed over for the
\* platform default.
C2_Witness ==
  /\ res.api = "lib" /\ XdgIsNotAbsolute
  /\ XdgValue # Some(EmptyPath)
  /\ IsSome(res.val)
  /\ res.val # XdgValue

\* C3 (as claimed): every path any operation returns is absolute.
C3_ResultAlwaysAbsolute ==
  (Returned /\ IsSome(res.val)) => is_absolute(Unwrap(res.val))

\* C4 (as claimed): in windows.rs the user-folder operations return an
\* absolute XDG override verbatim, with no sub-directory appended.
C4_WindowsOverrideVerbatim ==
  (res.api = "mod" /\ IsWindows /\ res.kind \in UserFolderKinds /\ XdgIsAbsolute)
    => res.val = XdgValue

\* C5 (as claimed): in windows.rs bin_home, publicshare and runtime return
\* their XDG variable when it holds an absolute path.
C5_WindowsOverrideFirst ==
  (res.api = "mod" /\ IsWindows /\ res.kind \in {"bin_home", "publicshare", "runtime"}
     /\ XdgIsAbsolute)
    => res.val = XdgValue

\* C6 (as claimed): in dir.rs an XDG variable that is not an absolute path
\* is discarded: the call returns what it returns with the variable unset.
C6_DirRelativeOverrideIgnored ==
  (res.api = "dir" /\ XdgIsNotAbsolute) => res.val = SameCall(EnvWithoutXdg)
---------------------------------------------------------------------------
(* The platform defaults as the specification tabulates them *)

\* kinds whose default is home joined with a sub-path (Linux, macOS)
HomeRelativeKinds == ModKinds \ {"runtime"}

LinuxSub(k) ==
  CASE k = "bin_home" -> <<".local", "/", "bin">>
    [] k = "cache_home" -> <<".cache">>
    [] k = "config_home" -> <<".config">>
    [] k = "data_home" -> <<".local", "/", "share">>
    [] k = "state_home" -> <<".local", "/", "state">>
    [] k = "desktop" -> <<"Desktop">>
    [] k = "documents" -> <<"Documents">>
    [] k = "downloads" -> <<"Downloads">>
    [] k = "music" -> <<"Music">>
    [] k = "pictures" -> <<"Pictures">>
    [] k = "templates" -> <<"Templates">>
    [] k = "videos" -> <<"Videos">>
    [] k = "publicshare" -> <<"Public">>

LinuxTableKinds == XdgKinds \ {"runtime"}

MacosSub(k) ==
  CASE k = "bin_home" -> <<".local", "/", "bin">>
    [] k = "cache_home" -> <<"Library", "/", "Caches">>
    [] k \in {"config_home", "data_home", "state_home"} -> <<"Library", "/", "Application Support">>
    [] k = "desktop" -> <<"Desktop">>
    [] k = "documents" -> <<"Documents">>
    [] k = "downloads" -> <<"Downloads">>
    [] k = "music" -> <<"Music">>
    [] k = "pictures" -> <<"Pictures">>
    [] k = "templates" -> <<"Templates">>
    [] k = "videos" -> <<"Movies">>
    [] k = "publicshare" -> <<"Public">>
    [] k = "preferences" -> <<"Library", "/", "Preferences">>

MacosTableKinds == (XdgKinds \ {"runtime"}) \cup {"preferences"}

\* the Windows variable a kind's default is read from
WindowsVar(k) ==
  CASE k \in {"bin_home", "cache_home", "state_home", "config_local", "data_local"} -> "LOCALAPPDATA"
    [] k \in {"config_home", "data_home", "preferences"} -> "APPDATA"
    [] k = "runtime" -> "TEMP"
    [] k \in UserFolderKinds -> "USERPROFILE"

\* the folder name joined to the value of that variable, for the kinds
\* that have one
WindowsSub(k) ==
  CASE k = "bin_home" -> <<"Programs">>
    [] k = "desktop" -> <<"Desktop">>
    [] k = "documents" -> <<"Documents">>
    [] k = "downloads" -> <<"Downloads">>
    [] k = "music" -> <<"Music">>
    [] k = "pictures" -> <<"Pictures">>
    [] k = "templates" -> <<"Templates">>
    [] k = "videos" -> <<"Videos">>

WindowsSubKinds == {"bin_home"} \cup UserFolderKinds

\* the Windows default of kind k in the environment e
WindowsDefault(k, e) ==
  IF k \in WindowsSubKinds THEN map_join(e[WindowsVar(k)], WindowsSub(k))
  ELSE e[WindowsVar(k)]

WindowsVarKinds == ModKinds \ {"publicshare", "fonts"}

WindowsTableKinds == WindowsVarKinds \ {"config_local", "data_local", "preferences"}

\* the override variable a lib.rs operation consults, None if it has none
LibOverride(k) ==
  CASE k \in XdgKinds -> env[XdgVarOf(k)]
    [] k = "config_local" /\ IsUnix -> env["XDG_CONFIG_HOME"]
    [] k = "data_local" /\ IsUnix -> env["XDG_DATA_HOME"]
    [] k = "preferences" /\ platform # "macos" -> env["XDG_CONFIG_HOME"]
    [] OTHER -> None

LibOverrideApplies(k) == IsSome(LibOverride(k)) /\ is_absolute(Unwrap(LibOverride(k)))

\* the default of the kind cannot be derived: home does not resolve
\* (Linux, macOS) or the needed variable is unset (Windows)
Underivable(k) ==
  \/ IsUnix /\ k \in HomeRelativeKinds /\ home_dir(env) = None
  \/ IsWindows /\ k \in WindowsVarKinds /\ env[WindowsVar(k)] = None

\* the path p is the whole default of kind k, not a part of it: it extends
\* the resolved home (Linux, macOS) or the needed variable (Windows)
CompleteDefault(k, p) ==
  \/ IsUnix /\ k \in HomeRelativeKinds /\ IsSome(home_dir(env))
       /\ StartsWith(p, Unwrap(home_dir(env))) /\ Len(p) > Len(Unwrap(home_dir(env)))
  \/ IsUnix /\ k = "runtime"
  \/ IsWindows /\ k \in WindowsVarKinds /\ IsSome(env[WindowsVar(k)])
       /\ Some(p) = WindowsDefault(k, env)
  \/ IsWindows /\ k = "publicshare"

LibDefaultCall == res.api = "lib" /\ res.kind # "home" /\ ~LibOverrideApplies(res.kind)

\* C7 (as claimed): an operation of lib.rs is absent exactly when no
\* absolute override applies and its default cannot be derived, and a
\* present default is complete.
C7_AbsentOnlyWhenUnderivable ==
  (res.api = "lib" /\ res.kind # "home") =>
     /\ (res.val = None) <=> (~LibOverrideApplies(res.kind) /\ Underivable(res.kind))
     /\ (LibDefaultCall /\ IsSome(res.val)) => CompleteDefault(res.kind, Unwrap(res.val))

\* C7 (amended): as claimed, except that fonts on Windows is absent in
\* every environment.
C7_AbsentOnlyWhenUnderivableOrNoConvention ==
  (res.api = "lib" /\ res.kind # "home") =>
     /\ (res.val = None) <=>
          \/ ~LibOverrideApplies(res.kind) /\ Underivable(res.kind)
          \/ IsWindows /\ res.kind = "fonts"
     /\ (LibDefaultCall /\ IsSome(res.val)) => CompleteDefault(res.kind, Unwrap(res.val))

\* C7 witness: a call is absent because home does not resolve, although a
\* relative override is set.
C7_Witness ==
  /\ res.api = "lib" /\ res.kind \in XdgKinds /\ IsUnix
  /\ XdgIsNotAbsolute
  /\ home_dir(env) = None
  /\ res.val = None

\* C8: on Linux, with the XDG variable of the kind unset and home
\* resolving to H, linux.rs and lib.rs return H joined with the sub-path
\* of the table.
C8_LinuxDefaults ==
  (res.api = "mod" /\ platform = "linux" /\ res.kind \in LinuxTableKinds
     /\ XdgValue = None /\ IsSome(home_dir(env)))
    => /\ res.val = Some(join(Unwrap(home_dir(env)), LinuxSub(res.kind)))
       /\ lib_op(res.kind, env) = res.val

\* C8 witness: linux.rs returned the default of videos under a HOME set by
\* the caller.
C8_Witness ==
  /\ res.api = "mod" /\ platform = "linux" /\ res.kind = "videos"
  /\ XdgValue = None /\ env["HOME"] = Some(<<"/", "HOME">>)
  /\ res.val = Some(<<"/", "HOME", "/", "Videos">>)

\* C9: on macOS, with the XDG variable of the kind unset and home
\* resolving to H, macos.rs and lib.rs return H joined with the sub-path
\* of the table (videos is Movies; preferences has no XDG variable).
C9_MacosDefaults ==
  (res.api = "mod" /\ platform = "macos" /\ res.kind \in MacosTableKinds
     /\ (res.kind \in XdgKinds => XdgValue = None) /\ IsSome(home_dir(env)))
    => /\ res.val = Some(join(Unwrap(home_dir(env)), MacosSub(res.kind)))
       /\ lib_op(res.kind, env) = res.val

\* C9 witness: macos.rs returned Movies for videos.
C9_Witness ==
  /\ res.api = "mod" /\ platform = "macos" /\ res.kind = "videos"
  /\ XdgValue = None /\ env["HOME"] = Some(<<"/", "HOME">>)
  /\ res.val = Some(<<"/", "HOME", "/", "Movies">>)

\* C10: on Windows, with the XDG variable of the kind unset, lib.rs returns
\* the value of the kind's Windows variable, joined with the folder name
\* where the table has one, and is absent when that variable is unset,
\* whatever HOMEDRIVE and HOMEPATH hold.
C10_WindowsDefaults ==
  (res.api = "lib" /\ IsWindows /\ res.kind \in WindowsTableKinds /\ XdgValue = None)
    => res.val = WindowsDefault(res.kind, env)

\* C10 witness: a user folder is absent with USERPROFILE unset although
\* HOMEDRIVE and HOMEPATH are set and the host knows the profile directory.
C10_Witness ==
  /\ res.api = "lib" /\ IsWindows /\ res.kind \in UserFolderKinds
  /\ XdgValue = None /\ env["USERPROFILE"] = None
  /\ env["HOMEDRIVE"] = Some(<<"C:">>) /\ env["HOMEPATH"] = Some(<<"\\", "Users", "\\", "u">>)
  /\ IsSome(account.profile)
  /\ res.val = None

---------------------------------------------------------------------------
(* The kinds without an override variable of their own *)

\* the environment with every XDG_* variable removed
EnvNoXdg == [v \in EnvVars |-> IF v \in XdgVars THEN None ELSE env[v]]

PublicLiteral == <<"C:", "\\", "Users", "\\", "Public">>

TmpLiteral == <<"/", "tmp">>

LocalKinds == {"config_local", "data_local"}

\* the kind a local kind follows on Linux and macOS
HomeKindOf(k) == IF k = "config_local" THEN "config_home" ELSE "data_home"

\* C11: on Windows, with XDG_PUBLICSHARE_DIR unset, publicshare() of
\* lib.rs and of windows.rs returns C:\Users\Public whatever the other
\* variables hold, and is never absent.
C11_WindowsPublicshareLiteral ==
  (res.api = "lib" /\ IsWindows /\ res.kind = "publicshare"
     /\ env["XDG_PUBLICSHARE_DIR"] = None)
    => /\ res.val = Some(PublicLiteral)
       /\ windows_publicshare(env) = Some(PublicLiteral)

\* C11 witness: the literal was returned in a login session, where
\* USERPROFILE names another directory.
C11_Witness ==
  /\ res.api = "lib" /\ IsWindows /\ res.kind = "publicshare"
  /\ env["XDG_PUBLICSHARE_DIR"] = None
  /\ env["USERPROFILE"] = Some(<<"C:", "\\", "USERPROFILE">>)
  /\ res.val = Some(PublicLiteral)

\* what the specification gives for runtime on Linux and macOS
UnixRuntime(e) ==
  IF IsSome(e["XDG_RUNTIME_DIR"]) /\ is_absolute(Unwrap(e["XDG_RUNTIME_DIR"]))
  THEN e["XDG_RUNTIME_DIR"]
  ELSE IF IsSome(e["TMPDIR"]) THEN e["TMPDIR"]
  ELSE Some(TmpLiteral)

\* C12: on Linux and macOS, runtime() of the platform module and of lib.rs
\* returns XDG_RUNTIME_DIR when it is absolute, else TMPDIR when it is
\* set, else /tmp; it is never absent.
C12_UnixRuntimeFallback ==
  (res.api = "mod" /\ IsUnix /\ res.kind = "runtime")
    => /\ res.val = UnixRuntime(env)
       /\ lib_runtime(env) = res.val
       /\ IsSome(res.val)
       /\ (env["XDG_RUNTIME_DIR"] = None /\ env["TMPDIR"] = None) => res.val = Some(TmpLiteral)

\* C12 witness: a relative XDG_RUNTIME_DIR was passed over for TMPDIR.
C12_Witness ==
  /\ res.api = "mod" /\ IsUnix /\ res.kind = "runtime"
  /\ env["XDG_RUNTIME_DIR"] = Some(RelPath)
  /\ env["TMPDIR"] = Some(<<"/", "TMPDIR">>)
  /\ res.val = Some(<<"/", "TMPDIR">>)

\* C13: on Linux and macOS, config_local() equals config_home() and
\* data_local() equals data_home() in every environment, in lib.rs and in
\* the platform module.
C13_UnixLocalEqualsHome ==
  (res.api = "lib" /\ IsUnix /\ res.kind \in LocalKinds)
    => /\ res.val = lib_op(HomeKindOf(res.kind), env)
       /\ mod_op(res.kind, env) = mod_op(HomeKindOf(res.kind), env)

\* C13 witness: config_local() followed an absolute XDG_CONFIG_HOME.
C13_Witness ==
  /\ res.api = "lib" /\ IsUnix /\ res.kind = "config_local"
  /\ env["XDG_CONFIG_HOME"] = Some(<<"/", "XDG_CONFIG_HOME">>)
  /\ res.val = Some(<<"/", "XDG_CONFIG_HOME">>)

\* C14: on Windows, config_local() and data_local() of lib.rs and of
\* windows.rs return the value of LOCALAPPDATA as it is, and are absent
\* when it is unset, whatever XDG_CONFIG_HOME and XDG_DATA_HOME hold.
C14_WindowsLocalIsLocalAppData ==
  (res.api = "lib" /\ IsWindows /\ res.kind \in LocalKinds)
    => /\ res.val = env["LOCALAPPDATA"]
       /\ mod_op(res.kind, env) = env["LOCALAPPDATA"]

\* C14 witness: a relative LOCALAPPDATA was returned as it is.
C14_Witness ==
  /\ res.api = "lib" /\ IsWindows /\ res.kind = "data_local"
  /\ env["LOCALAPPDATA"] = Some(RelPath)
  /\ res.val = Some(RelPath)

\* C15: on Linux and Windows, preferences() equals config_home() in every
\* environment, in lib.rs and in the platform module.
C15_PreferencesEqualsConfigHome ==
  (res.api = "lib" /\ platform \in {"linux", "windows"} /\ res.kind = "preferences")
    => /\ res.val = lib_config_home(env)
       /\ mod_op("preferences", env) = mod_op("config_home", env)

\* C15 witness: on Windows preferences() followed an absolute
\* XDG_CONFIG_HOME although APPDATA was set.
C15_Witness ==
  /\ res.api = "lib" /\ IsWindows /\ res.kind = "preferences"
  /\ env["XDG_CONFIG_HOME"] = Some(<<"C:", "\\", "XDG_CONFIG_HOME">>)
  /\ IsSome(env["APPDATA"])
  /\ res.val = env["XDG_CONFIG_HOME"]

NoOverrideKinds == LocalKinds \cup {"preferences"}

\* a kind of NoOverrideKinds that reads no XDG variable on the platform
ReadsNoXdg(k) ==
  \/ IsWindows /\ k \in LocalKinds
  \/ platform = "macos" /\ k = "preferences"

\* the kind whose result a kind of NoOverrideKinds returns where it reads
\* an XDG variable
FollowedKind(k) == IF k = "preferences" THEN "config_home" ELSE HomeKindOf(k)

\* C16 (as claimed): config_local(), data_local() and preferences() return
\* the same for every assignment of the XDG variables, on every platform.
C16_NoXdgOverride ==
  (res.api = "lib" /\ res.kind \in NoOverrideKinds)
    => /\ res.val = lib_op(res.kind, EnvNoXdg)
       /\ mod_op(res.kind, env) = mod_op(res.kind, EnvNoXdg)

\* C16 (amended): config_local() and data_local() on Windows and
\* preferences() on macOS return the same for every assignment of the XDG
\* variables; on the other platforms they return what config_home() /
\* data_home() return, XDG override included.
C16_NoXdgOverrideWhereNotDelegated ==
  (res.api = "lib" /\ res.kind \in NoOverrideKinds)
    => IF ReadsNoXdg(res.kind)
       THEN /\ res.val = lib_op(res.kind, EnvNoXdg)
            /\ mod_op(res.kind, env) = mod_op(res.kind, EnvNoXdg)
       ELSE /\ res.val = lib_op(FollowedKind(res.kind), env)
            /\ mod_op(res.kind, env) = mod_op(FollowedKind(res.kind), env)

\* C16 witness: on macOS preferences() returned the folder under home
\* although XDG_CONFIG_HOME held an absolute path.
C16_Witness ==
  /\ res.api = "lib" /\ platform = "macos" /\ res.kind = "preferences"
  /\ env["XDG_CONFIG_HOME"] = Some(<<"/", "XDG_CONFIG_HOME">>)
  /\ IsSome(res.val)
  /\ res.val = map_join(home_dir(env), <<"Library", "/", "Preferences">>)

\* what the specification gives for fonts
FontsOf(home) ==
  CASE platform = "linux"   -> map_join(home, <<".local", "/", "share", "/", "fonts">>)
    [] platform = "macos"   -> map_join(home, <<"Library", "/", "Fonts">>)
    [] platform = "windows" -> None

\* C17: fonts() is absent on Windows, home joined with .local/share/fonts
\* on Linux and with Library/Fonts on macOS, in lib.rs and in the platform
\* module, and does not depend on any XDG variable.
C17_Fonts ==
  (res.api = "lib" /\ res.kind = "fonts")
    => /\ res.val = FontsOf(lib_home(env))
       /\ mod_op("fonts", env) = res.val
       /\ res.val = lib_op("fonts", EnvNoXdg)
       /\ mod_op("fonts", env) = mod_op("fonts", EnvNoXdg)

\* C17 witness: on Linux fonts() returned the folder under HOME although
\* XDG_DATA_HOME held an absolute path.
C17_Witness ==
  /\ res.api = "lib" /\ platform = "linux" /\ res.kind = "fonts"
  /\ env["XDG_DATA_HOME"] = Some(<<"/", "XDG_DATA_HOME">>)
  /\ env["HOME"] = Some(<<"/", "HOME">>)
  /\ res.val = Some(<<"/", "HOME", "/", ".local", "/", "share", "/", "fonts">>)

\* C18: on Linux and macOS fonts() is present in every environment
\* (lib.rs and the platform modules). Fails in the code: with HOME unset
\* and no entry for the user in the user database home() is absent, and
\* fonts() with it.
C18_UnixFontsAlwaysPresent ==
  (res.api = "lib" /\ IsUnix /\ res.kind = "fonts")
    => /\ IsSome(res.val)
       /\ IsSome(mod_op("fonts", env))

UnixHomeCall == res.api = "lib" /\ IsUnix /\ res.kind = "home"

\* C19: on Unix home() returns HOME as it is whenever HOME is
\* set, the home directory of the user's entry in the user database when
\* HOME is unset, is absent exactly when HOME is unset and there is no
\* such entry, and reads no XDG variable (lib.rs, and dir.rs in the same
\* environment). Fails in the code: lib.rs delegates to the standard
\* library, which takes HOME set to the empty string as unset.
C19_UnixHome ==
  UnixHomeCall
    => /\ IsSome(env["HOME"]) => (res.val = env["HOME"] /\ dir_home(env) = env["HOME"])
       /\ env["HOME"] = None => (res.val = account.pw_dir /\ dir_home(env) = account.pw_dir)
       /\ (res.val = None) <=> (env["HOME"] = None /\ account.pw_dir = None)
       /\ (dir_home(env) = None) <=> (env["HOME"] = None /\ account.pw_dir = None)
       /\ res.val = lib_home(EnvNoXdg)
       /\ dir_home(env) = dir_home(EnvNoXdg)

\* C20 (as claimed): on Windows home() returns USERPROFILE when it is
\* set, HOMEDRIVE followed by HOMEPATH when USERPROFILE is unset and both
\* are set, and is absent otherwise.
C20_WindowsHome ==
  (res.api = "lib" /\ IsWindows /\ res.kind = "home")
    => /\ IsSome(env["USERPROFILE"]) => res.val = env["USERPROFILE"]
       /\ (env["USERPROFILE"] = None /\ IsSome(env["HOMEDRIVE"]) /\ IsSome(env["HOMEPATH"]))
            => res.val = Some(Unwrap(env["HOMEDRIVE"]) \o Unwrap(env["HOMEPATH"]))
       /\ (env["USERPROFILE"] = None /\ (env["HOMEDRIVE"] = None \/ env["HOMEPATH"] = None))
            => res.val = None

---------------------------------------------------------------------------
(* The revisions against each other, and calls against each other *)

\* the lib.rs name of a dir.rs kind
LibKindOf(k) ==
  CASE k = "desktop_dir" -> "desktop"
    [] k = "documents_dir" -> "documents"
    [] k = "download_dir" -> "downloads"
    [] k = "music_dir" -> "music"
    [] k = "pictures_dir" -> "pictures"
    [] k = "publicshare_dir" -> "publicshare"
    [] k = "runtime_dir" -> "runtime"
    [] k = "templates_dir" -> "templates"
    [] k = "videos_dir" -> "videos"
    [] OTHER -> k

\* C21 (as claimed): for each of the 15 kinds both define, dir.rs returns
\* Ok(p) exactly when lib.rs returns Some(p), and Err exactly when lib.rs
\* returns None.
C21_DirEquivalentToLib ==
  (res.api = "dir") => res.val = lib_op(LibKindOf(res.kind), env)

\* C22: a call returns what the environment at the moment of the call
\* determines: the value of the same operation evaluated on the current
\* environment, whatever the variables held before; in particular
\* runtime() on Linux and macOS follows the current TMPDIR, and /tmp once
\* TMPDIR is removed.
C22_NoCaching ==
  (res.api = "lib")
    => /\ res.val = lib_op(res.kind, env)
       /\ (IsUnix /\ res.kind = "runtime" /\ env["XDG_RUNTIME_DIR"] = None)
            => /\ res.val = OrElse(env["TMPDIR"], Some(TmpLiteral))
               /\ mod_op("runtime", env) = res.val
       /\ XdgIsAbsolute => res.val = env[XdgVarOf(res.kind)]

\* C22 witness: TMPDIR was set when the process started and has been
\* removed since; runtime() returns /tmp.
C22_Witness ==
  /\ res.api = "lib" /\ IsUnix /\ res.kind = "runtime"
  /\ StartEnv["TMPDIR"] = Some(<<"/", "TMPDIR">>)
  /\ env["TMPDIR"] = None /\ env["XDG_RUNTIME_DIR"] = None
  /\ res.val = Some(TmpLiteral)

\* the environment with the XDG variables of all other kinds removed
EnvOwnXdgOnly ==
  [v \in EnvVars |->
     IF v \in XdgVars /\ v # XdgVarOf(res.kind) THEN None ELSE env[v]]

\* C23: the result of a kind that has an XDG variable is the same whatever
\* the XDG variables of the other kinds hold (the same as with all of them
\* removed), in lib.rs and in the platform module.
C23_KindsIndependent ==
  (res.api = "lib" /\ res.kind \in XdgKinds)
    => /\ res.val = lib_op(res.kind, EnvOwnXdgOnly)
       /\ mod_op(res.kind, env) = mod_op(res.kind, EnvOwnXdgOnly)

\* C23 witness: cache_home() returned its default while XDG_CONFIG_HOME
\* held an absolute path.
C23_Witness ==
  /\ res.api = "lib" /\ res.kind = "cache_home"
  /\ IsSome(env["XDG_CONFIG_HOME"]) /\ is_absolute(Unwrap(env["XDG_CONFIG_HOME"]))
  /\ IsSome(res.val)
  /\ res.val # env["XDG_CONFIG_HOME"]

---------------------------------------------------------------------------
(* dir.rs: failures and the runtime directory *)

\* home() of dir.rs has nothing to return
DirHomeFails ==
  IF IsUnix
  THEN env["HOME"] = None /\ account.pw_dir = None
  ELSE env["USERPROFILE"] = None /\ (env["HOMEDRIVE"] = None \/ env["HOMEPATH"] = None)

\* the cases in which the specification has a dir.rs operation fail
DirErrExpected(k) ==
  IF k = "home" THEN DirHomeFails
  ELSE /\ env[XdgVarOf(k)] = None
       /\ \/ IsUnix /\ k # "runtime_dir" /\ DirHomeFails
          \/ IsWindows /\ k # "publicshare_dir" /\ env[WindowsVar(LibKindOf(k))] = None

\* C25: an operation of dir.rs returns Err exactly when its XDG variable
\* is unset and its default cannot be derived (home() fails on Linux and
\* macOS, the needed variable is unset on Windows); runtime_dir on Linux
\* and macOS and publicshare_dir on Windows never return Err.
C25_DirErrExactlyWhenUnderivable ==
  (res.api = "dir")
    => /\ (res.val = None) <=> DirErrExpected(res.kind)
       /\ (IsUnix /\ res.kind = "runtime_dir") => IsSome(res.val)
       /\ (IsWindows /\ res.kind = "publicshare_dir") => IsSome(res.val)

\* C25 witness: a home-relative operation failed because home() failed.
C25_Witness ==
  /\ res.api = "dir" /\ IsUnix /\ res.kind = "config_home"
  /\ env["XDG_CONFIG_HOME"] = None
  /\ DirHomeFails /\ dir_home(env) = None
  /\ res.val = None

\* the user id as text
UidText == IF account.uid = 1000 THEN <<"1", "0", "0", "0">> ELSE <<"2", "7">>

\* C26: in dir.rs with XDG_RUNTIME_DIR unset, runtime_dir() on Linux is
\* /run/user/<uid> whatever TMPDIR and HOME hold, and on macOS TMPDIR when
\* set, else /tmp.
C26_DirRuntime ==
  (res.api = "dir" /\ res.kind = "runtime_dir" /\ env["XDG_RUNTIME_DIR"] = None)
    => /\ platform = "linux" => res.val = Some(<<"/", "run", "/", "user", "/">> \o UidText)
       /\ platform = "macos" => res.val = OrElse(env["TMPDIR"], Some(TmpLiteral))

\* C26 witness: on Linux /run/user/1000 was returned although TMPDIR and
\* HOME were set.
C26_Witness ==
  /\ res.api = "dir" /\ platform = "linux" /\ res.kind = "runtime_dir"
  /\ env["XDG_RUNTIME_DIR"] = None
  /\ IsSome(env["TMPDIR"]) /\ IsSome(env["HOME"])
  /\ res.val = Some(<<"/", "run", "/", "user", "/", "1", "0", "0", "0">>)

\* C27 (as claimed): for each of the 18 kinds other than home the function
\* of the platform module returns what the method of lib.rs returns.
C27_ModulesEquivalentToLib ==
  (res.api = "mod") => res.val = lib_op(res.kind, env)

\* the environment with the XDG variable of the call set to the empty
\* string
EnvEmptyXdg == [env EXCEPT ![XdgVarOf(res.kind)] = Some(EmptyPath)]

\* C28 (as claimed): with its XDG variable set to the empty string an
\* operation returns what it returns with the variable unset, and never
\* an empty path (lib.rs and the platform module).
C28_EmptyOverrideIgnored ==
  (res.api = "lib" /\ res.kind \in XdgKinds /\ XdgValue = None)
    => /\ lib_op(res.kind, EnvEmptyXdg) = res.val
       /\ mod_op(res.kind, EnvEmptyXdg) = mod_op(res.kind, env)
       /\ lib_op(res.kind, EnvEmptyXdg) # Some(EmptyPath)
       /\ mod_op(res.kind, EnvEmptyXdg) # Some(EmptyPath)

---------------------------------------------------------------------------
(* Calls from several threads *)

\* Threads of one process calling dir.rs while nobody changes the
\* environment.  A call reads the environment and, where home() gets as
\* far as the user database, goes through libc::getpwuid, which fills a
\* buffer that belongs to libc and is shared by all threads, and returns a
\* pointer into it; the caller reads pw_dir through that pointer after
\* getpwuid has returned.

\* the call of kind k continued from the point where home() has returned h
dir_op_with_home(k, h) ==
  IF IsSome(h) THEN dir_op(k, [env EXCEPT !["HOME"] = h]) ELSE None

\* text of other entries of the user database, which is in the buffer
\* while getpwuid scans the database: a whole directory, or a piece of a
\* line that starts anywhere in it
OtherEntryDir == <<"/", "root">>

OtherEntryPiece == <<"games:", "/", "usr", "/", "sbin", "/">>

\* what CStr::from_ptr((*passwd).pw_dir).to_str() can give while another
\* thread is inside getpwuid: the directory of the entry, text of another
\* entry (absolute, relative or empty), or no valid text
RacyPwDir ==
  {account.pw_dir, Some(OtherEntryDir), Some(OtherEntryPiece), Some(EmptyPath), None}

\* thread t calls Dir::<k>() of dir.rs and runs up to the call of getpwuid,
\* or to the end where the call does not get there
ThreadCall(t, k) ==
  /\ thr[t].pc = "idle"
  /\ thr' = [thr EXCEPT ![t] =
               IF ReachesGetpwuid(k)
               THEN [pc |-> "getpwuid", kind |-> k, val |-> None]
               ELSE [pc |-> "done", kind |-> k, val |-> dir_op(k, env)]]
  /\ UNCHANGED <<platform, start, env, account, stdKeepsEmpty, res, pwbuf>>

\* thread t enters getpwuid (one thread at a time: libc takes a lock) and
\* libc starts to scan the user database into its buffer
ThreadGetpwuidEnter(t) ==
  /\ thr[t].pc = "getpwuid"
  /\ \A u \in Threads : thr[u].pc # "in_getpwuid"
  /\ thr' = [thr EXCEPT ![t].pc = "in_getpwuid"]
  /\ pwbuf' = "scratch"
  /\ UNCHANGED <<platform, start, env, account, stdKeepsEmpty, res>>

\* getpwuid returns to thread t: a pointer to the entry in the buffer, or
\* null where the user has no entry, in which case home() returns Err
ThreadGetpwuidReturn(t) ==
  /\ thr[t].pc = "in_getpwuid"
  /\ IF IsSome(getpwuid(getuid))
     THEN thr' = [thr EXCEPT ![t].pc = "has_ptr"]
     ELSE thr' = [thr EXCEPT ![t].pc = "done", ![t].val = None]
  /\ pwbuf' = pwbuf_after_getpwuid
  /\ UNCHANGED <<platform, start, env, account, stdKeepsEmpty, res>>

\* thread t reads pw_dir through the pointer and finishes the call
ThreadReadPwDir(t) ==
  /\ thr[t].pc = "has_ptr"
  /\ \E h \in (IF pwbuf = "entry" THEN {getpwuid(getuid)} ELSE RacyPwDir) :
       thr' = [thr EXCEPT ![t].pc = "done", ![t].val = dir_op_with_home(thr[t].kind, h)]
  /\ UNCHANGED <<platform, start, env, account, stdKeepsEmpty, res, pwbuf>>

\* the caller on thread t is done with the value it got
ThreadReturn(t) ==
  /\ thr[t].pc = "done"
  /\ thr' = [thr EXCEPT ![t] = ThreadIdle]
  /\ UNCHANGED <<platform, start, env, account, stdKeepsEmpty, res, pwbuf>>

NextDirThreads ==
  \/ \E t \in Threads : \E k \in DirKinds : ThreadCall(t, k)
  \/ \E t \in Threads : ThreadGetpwuidEnter(t)
  \/ \E t \in Threads : ThreadGetpwuidReturn(t)
  \/ \E t \in Threads : ThreadReadPwDir(t)
  \/ \E t \in Threads : ThreadReturn(t)

SpecDirThreads == Init /\ [][NextDirThreads]_vars

\* C24 (as claimed): with the environment left alone, a call that returns
\* on some thread returns what the call returns when it runs alone under
\* that environment, whatever the other threads are doing.
C24_ThreadsDoNotInterfere ==
  \A t \in Threads :
     thr[t].pc = "done" => thr[t].val = dir_op(thr[t].kind, env)

====
